---------------------------- MODULE Spec2Model ----------------------------
(***************************************************************************)
(* Model of src/src/main.rs: the EC800K gateway.                           *)
(*                                                                         *)
(* Two cooperative tasks share three statics:                              *)
(*   http_server_task  parses a browser request, locks AT_RESULT, writes   *)
(*                     the page and raises AT_COMMAND_SIGNAL or            *)
(*                     HTTP_GET_SIGNAL;                                    *)
(*   uart_task         probes the modem once, then loops on select() over  *)
(*                     the two signals and runs handle_at_command or       *)
(*                     perform_http_get against the UART.                  *)
(* The modem is the environment: it puts bytes into the UART receive       *)
(* buffer at any time.                                                     *)
(*                                                                         *)
(* Text.  A string is a sequence of atoms; an atom is a run of bytes that  *)
(* is never split by a read ("O", "K", "ERROR", "+QIOPEN: 0,0", ...).      *)
(* The token OK is the two atoms "O","K", so a read can fall between them. *)
(* Capacities of heapless strings are counted in atoms.                    *)
(*                                                                         *)
(* Scheduling.  The embassy executor is cooperative: a task runs until an  *)
(* await that is not ready.  urun = TRUE says uart_task is in the middle   *)
(* of such a run (it has not suspended), and http_server_task, which runs  *)
(* on the same executor, cannot act then; a signal raised while uart_task  *)
(* waits in select() wakes it, and it runs before the HTTP task accepts    *)
(* the next connection.  Timer::after awaits are folded into the           *)
(* suspension point that follows them.  rx.read() of embedded_io_async     *)
(* waits until at least one byte or an error is there.                     *)
(*                                                                         *)
(* History.  nsub, inflight, serviced, busysub and stream record what has  *)
(* happened (triggers raised and taken, bytes read for the command in      *)
(* progress); the program does not read them.                              *)
(***************************************************************************)
EXTENDS Naturals, Sequences, FiniteSets, TLC

VARIABLES
    AT_RESULT,          \* main.rs:55   the shared result text
    result_lock,        \* main.rs:55   owner of the AT_RESULT mutex: "free" | "http"
    AT_COMMAND_SIGNAL,  \* main.rs:60   <<>> or <<[id, cmd]>>
    HTTP_GET_SIGNAL,    \* main.rs:65   <<>> or <<[id]>>
    hpc,                \* http_server_task: "accept" | "respond"
    cmd_to_send,        \* main.rs:101
    trigger_http_get,   \* main.rs:102
    upc,                \* uart_task: the suspension point it is at
    urun,               \* uart_task is running (has not suspended)
    command,            \* handle_at_command's argument
    step,               \* send_at_command's step argument (0 outside it)
    attempt,            \* the loop counter of the current read loop
    received,           \* main.rs:374, 896
    total_bytes,        \* main.rs:375
    response,           \* the accumulator of the current read loop that is read again
    flag,               \* send_ok_received / data_notified / received_final_data
    stream,             \* what the bytes read for the current command have shown so far
    rxbuf,              \* bytes the modem has sent and the UART has not yet delivered
    rxerr,              \* a receive error is pending (framing, overrun, ...)
    txlog,              \* what was written to the UART for the trigger in service
    modem,              \* the pieces of text the attached modem can send
    nsub,               \* triggers raised so far
    inflight,           \* triggers taken by uart_task and not yet finished
    serviced,           \* ids of the triggers taken, in the order taken
    busysub             \* ids of the triggers raised while one was in flight

vars == << AT_RESULT, result_lock, AT_COMMAND_SIGNAL, HTTP_GET_SIGNAL, hpc,
           cmd_to_send, trigger_http_get, upc, urun, command, step, attempt,
           received, total_bytes, response, flag, stream, rxbuf, rxerr, txlog,
           modem,
           nsub, inflight, serviced, busysub >>

httpVars == << hpc, cmd_to_send, trigger_http_get >>
sigVars  == << AT_COMMAND_SIGNAL, HTTP_GET_SIGNAL, nsub, busysub >>
loopVars == << command, step, attempt, received, total_bytes, response, flag >>
histVars == << inflight, serviced >>

-----------------------------------------------------------------------------
(* Bounds of the model *)

MaxSubmit == 2      \* triggers the HTTP front end raises in one behaviour
RxCap     == 3      \* atoms the receive buffer holds before the modem must wait
ReadBuf   == 3      \* atoms one rx.read() returns at most ([0u8; 256])
StreamPolls == 3    \* polls of one command during which the streaming modem still sends
ResultCap == 12     \* capacity of AT_RESULT (heapless::String<2048>), in atoms
MaxRaw    == 66     \* characters of the longest raw command a request carries
RespCap   == 3      \* capacity of a response accumulator (String<512>/<1024>/<2048>), in atoms

(* Program constants *)

CmdCap       == 64  \* heapless::String<64>
ProbePolls   == 5
AtPolls      == 10
StepPolls    == 10
ActPolls     == 10
OpenPolls    == 60
PromptPolls  == 30
SendOkPolls  == 10
NotifyPolls  == 60
DataPolls    == 10

-----------------------------------------------------------------------------
(* Strings *)

\* str::contains: t occurs in s as a contiguous run
Contains(s, t) ==
    \E k \in 0..(Len(s) - Len(t)) : SubSeq(s, k + 1, k + Len(t)) = t

\* str::ends_with
EndsWith(s, t) ==
    Len(s) >= Len(t) /\ SubSeq(s, Len(s) - Len(t) + 1, Len(s)) = t

\* heapless::String::push_str: appends the whole of s, or nothing when it does not fit
PushStr(str, s, cap) == IF Len(str) + Len(s) <= cap THEN str \o s ELSE str

\* heapless::String::push: one char
Push(str, c, cap) == IF Len(str) < cap THEN Append(str, c) ELSE str

\* core::str::from_utf8(&buf[..n]).is_ok(): "BAD" is a byte that is not UTF-8
IsUtf8(chunk) == \A k \in 1..Len(chunk) : chunk[k] # "BAD"

IsSpace(c) == c \in {" ", "\r", "\n", "\t"}

RECURSIVE TrimStart(_)
TrimStart(s) == IF s # <<>> /\ IsSpace(Head(s)) THEN TrimStart(Tail(s)) ELSE s

RECURSIVE TrimEnd(_)
TrimEnd(s) ==
    IF s # <<>> /\ IsSpace(s[Len(s)]) THEN TrimEnd(SubSeq(s, 1, Len(s) - 1)) ELSE s

\* str::trim
Trim(s) == TrimEnd(TrimStart(s))

(* The tokens the code searches for *)
OK       == <<"O", "K">>
ERROR    == <<"ERROR">>
SEND_OK  == <<"SEND ", "O", "K">>
QIOPEN00 == <<"+QIOPEN: 0,0">>
QIOPEN04 == <<"+QIOPEN: 0,4">>
PROMPT   == <<">">>
RECV     == <<"+QIURC: recv">>
BLANK2   == <<"\r\n\r\n">>
BRACE    == <<"{">>

-----------------------------------------------------------------------------
(* The modem (environment) *)

(* The UART lines the workflow writes *)
CMD_CPIN   == <<"AT+CPIN?\r\n">>
CMD_CREG   == <<"AT+CREG?\r\n">>
CMD_CGATT  == <<"AT+CGATT=1\r\n">>
CMD_QICSGP == <<"AT+QICSGP=1,1,CMNET\r\n">>
CMD_QIACT  == <<"AT+QIACT=1\r\n">>
CMD_QIACTQ == <<"AT+QIACT?\r\n">>
CMD_QIOPEN == <<"AT+QIOPEN=1,0,TCP,httpbin.org,80,0,0\r\n">>
CMD_QISEND == <<"AT+QISEND=0\r\n">>
HTTP_REQ   == <<"GET /get HTTP/1.1 ...\r\n\r\n">>
CTRL_Z     == <<"0x1A">>
CMD_QIRD   == <<"AT+QIRD=0\r\n">>

QIACT11    == <<"+QIACT: 1,1,10.0.0.5">>    \* the status query's report of an active context
QIOPEN0N   == <<"+QIOPEN: 0,566">>          \* an open result with another non-zero code

\* What was last written to the UART for the trigger in service (<<>>: nothing yet)
LastWrite == IF txlog = <<>> THEN <<>> ELSE txlog[Len(txlog)].data

(* The pieces of text the modem can put on the line, by the kind of modem    *)
(* attached:                                                                 *)
(*   "reply"   answers the last command with one of its documented replies,  *)
(*             one piece at a time, the next once the last has been read;    *)
(*   "stream"  sends the atoms of OK and ERROR one at a time, at any        *)
(*             moment, so that every chunking of a response occurs.          *)
Replies(last) ==
    CASE last = CMD_QIACTQ -> {QIACT11, OK, ERROR}
      [] last = CMD_QIOPEN -> {OK, QIOPEN00, QIOPEN04, QIOPEN0N}
      [] last = CMD_QISEND -> {PROMPT, ERROR}
      [] last = CTRL_Z     -> {SEND_OK, RECV}
      [] last = CMD_QIRD   -> {BLANK2 \o BRACE, <<"x">>}
      [] OTHER             -> {OK, ERROR}

Streamed == {<<"O">>, <<"K">>, ERROR}

Pieces ==
    CASE modem = "reply"  -> Replies(LastWrite)
      [] modem = "stream" -> Streamed

\* The modem sends a piece: it lands in the UART receive buffer
ModemSend ==
    \E p \in Pieces :
        /\ Len(rxbuf) + Len(p) <= RxCap
        /\ modem = "reply" => rxbuf = <<>>
        /\ modem = "stream" => attempt < StreamPolls
        /\ rxbuf' = rxbuf \o p
        /\ UNCHANGED << AT_RESULT, result_lock, httpVars, sigVars, upc, urun,
                        loopVars, stream, rxerr, txlog, modem, histVars >>

\* A receive fault (framing, parity, overrun): the next rx.read() returns Err
ModemFault ==
    /\ ~rxerr
    /\ rxerr' = TRUE
    /\ UNCHANGED << AT_RESULT, result_lock, httpVars, sigVars, upc, urun,
                    loopVars, stream, rxbuf, txlog, modem, histVars >>

(* rx.read(&mut buf).await: ready once a fault or a byte is there *)
ReadReady == rxerr \/ rxbuf # <<>>
ReadOk == ~rxerr                                             \* Ok(n) with n > 0
ReadChunk(n) == SubSeq(rxbuf, 1, IF Len(rxbuf) < n THEN Len(rxbuf) ELSE n)
ReadRest(n) ==
    IF rxerr THEN rxbuf
    ELSE SubSeq(rxbuf, (IF Len(rxbuf) < n THEN Len(rxbuf) ELSE n) + 1, Len(rxbuf))

(* What the bytes read for the command in progress have shown so far:        *)
(*   first  the terminal token that came first in the stream, if any;        *)
(*   tail   the last atom read, for a token that straddles two chunks;       *)
(*   marks  the structured reports read.                                     *)
NoStream == [first |-> "none", tail |-> "", marks |-> {}]
Marks == {QIACT11[1], QIOPEN0N[1]}

RECURSIVE Observe(_, _)
Observe(st, s) ==
    IF s = <<>> THEN st
    ELSE Observe([first |-> IF st.first # "none" THEN st.first
                            ELSE IF st.tail = "O" /\ Head(s) = "K" THEN "OK"
                            ELSE IF Head(s) = "ERROR" THEN "ERROR"
                            ELSE "none",
                  tail  |-> Head(s),
                  marks |-> st.marks \cup ({Head(s)} \cap Marks)],
                 Tail(s))

\* The stream after the rx.read() that is ready now
Seen(n) == IF ReadOk THEN Observe(stream, ReadChunk(n)) ELSE stream

\* The stream is followed while the read loop `pcs` goes on
KeepStream(n, pcs) == stream' = IF upc' \in pcs THEN Seen(n) ELSE NoStream

\* tx.write_all(bytes): the bytes go out on the line, written by uart_task
Written(bytes) == Append(txlog, [task |-> "uart_task", data |-> bytes])

-----------------------------------------------------------------------------
(* http_server_task *)

IsHex(c) == c \in {"0", "1", "2", "3", "4", "5", "6", "7", "8", "9",
                   "A", "B", "C", "D", "E", "F", "a", "b", "c", "d", "e", "f"}

\* ((h1 << 4) | h2) as u8 as char, for the escapes the front end's own links use
HexChar(h1, h2) ==
    CASE <<h1, h2>> = <<"0", "D">> -> "\r"
      [] <<h1, h2>> = <<"0", "A">> -> "\n"
      [] <<h1, h2>> = <<"2", "0">> -> " "
      [] OTHER                     -> "?"

\* The loop of decode_url over its state: the characters still to read and the
\* output built so far
RECURSIVE DecodeChars(_)
DecodeChars(st) ==
    IF st.chars = <<>> THEN st.output
    ELSE LET input  == st.chars
             output == st.output
             c      == Head(input)
         IN
         IF c = "%"
         THEN LET hex1 == IF Len(input) >= 2 THEN input[2] ELSE "0"
                  hex2 == IF Len(input) >= 3 THEN input[3] ELSE "0"
                  rest == SubSeq(input, 4, Len(input))
              IN  IF IsHex(hex1) /\ IsHex(hex2)
                  THEN DecodeChars([chars  |-> rest,
                                    output |-> Push(output, HexChar(hex1, hex2), CmdCap)])
                  ELSE DecodeChars([chars |-> rest, output |-> output])
         ELSE IF c = "+"
         THEN DecodeChars([chars |-> Tail(input), output |-> Push(output, " ", CmdCap)])
         ELSE DecodeChars([chars |-> Tail(input), output |-> Push(output, c, CmdCap)])

decode_url(input) ==
    LET output == DecodeChars([chars |-> input, output |-> <<>>]) IN
    IF EndsWith(output, <<"\r", "\n">>) THEN output
    ELSE PushStr(output, <<"\r", "\n">>, CmdCap)

\* The requests a browser sends: GET /at?cmd=<raw>, GET /http_get, GET /
RawCmds  == {<<"A", "T">>}
Requests == {[kind |-> "at", raw |-> r] : r \in RawCmds}
                \cup {[kind |-> "get", raw |-> <<>>], [kind |-> "page", raw |-> <<>>]}

\* One request is accepted, read and parsed; AT_RESULT is locked and the page is
\* formatted from it; the task then suspends in socket.write_all with the lock held.
Serve(reqs, max) ==
    /\ hpc = "accept"
    /\ ~urun
    /\ result_lock = "free"
    /\ \E req \in reqs :
        /\ req.kind # "page" => nsub < max
        /\ cmd_to_send' = IF req.kind = "at" THEN decode_url(req.raw) ELSE <<>>
        /\ trigger_http_get' = (req.kind = "get")
    /\ result_lock' = "http"
    /\ hpc' = "respond"
    /\ UNCHANGED << AT_RESULT, sigVars, upc, urun, loopVars, stream, rxbuf, rxerr, txlog,
                    modem, histVars >>

HttpServe == Serve(Requests, MaxSubmit)

\* Requests GET /at?cmd=<raw> with a raw command of any length up to MaxRaw, plain
\* or with the escaped line end %0D%0A
Pad(n)       == [k \in 1..n |-> "A"]
LongCmds     == {Pad(n) \o t : n \in 0..MaxRaw, t \in {<<>>, <<"%", "0", "D", "%", "0", "A">>}}
LongRequests == {[kind |-> "at", raw |-> r] : r \in LongCmds}
HttpServeLong == Serve(LongRequests, MaxSubmit)

\* The same requests, one trigger more in a behaviour
HttpServeMore == Serve(Requests, MaxSubmit + 1)

\* Signal::signal(value): the value replaces whatever the cell held
Signal(cell, value) == <<value>>

\* The ids of the triggers a cell holds
Held(cell) == {cell[k].id : k \in 1..Len(cell)}

\* The page is written and flushed; the signals are raised; the guard on AT_RESULT
\* is dropped at the end of the loop body.
HttpFinish ==
    /\ hpc = "respond"
    /\ ~urun
    /\ LET raise == cmd_to_send # <<>> \/ trigger_http_get
           id    == nsub + 1
       IN  /\ AT_COMMAND_SIGNAL' =
                 IF cmd_to_send # <<>>
                 THEN Signal(AT_COMMAND_SIGNAL, [id |-> id, cmd |-> cmd_to_send])
                 ELSE AT_COMMAND_SIGNAL
           /\ HTTP_GET_SIGNAL' =
                 IF trigger_http_get
                 THEN Signal(HTTP_GET_SIGNAL, [id |-> id])
                 ELSE HTTP_GET_SIGNAL
           /\ nsub' = IF raise THEN id ELSE nsub
           /\ busysub' = IF raise /\ inflight # {} THEN busysub \cup {id} ELSE busysub
           /\ urun' = (raise /\ upc = "idle")      \* signal() wakes the waiting select()
    /\ result_lock' = "free"
    /\ hpc' = "accept"
    /\ cmd_to_send' = <<>>
    /\ trigger_http_get' = FALSE
    /\ UNCHANGED << AT_RESULT, upc, loopVars, stream, rxbuf, rxerr, txlog, modem,
                    histVars >>

-----------------------------------------------------------------------------
(* uart_task *)

Log(r, s) == PushStr(r, s, ResultCap)

\* The mutex is kept by uart_task after its block: the mutation of Dropped
held_on == result_lock' = IF result_lock = "free" THEN "uart_task" ELSE result_lock

\* Every `AT_RESULT.lock().await` of uart_task is the first statement of a block
\* with no await in it: the guard is dropped before the task suspends again, so a
\* step of uart_task leaves the mutex as it found it
Dropped == result_lock' = result_lock

\* select(AT_COMMAND_SIGNAL.wait(), HTTP_GET_SIGNAL.wait()) is ready
SignalPending == AT_COMMAND_SIGNAL # <<>> \/ HTTP_GET_SIGNAL # <<>>

\* The values of the locals outside their scope
NoLocals ==
    /\ command' = <<>>
    /\ step' = 0
    /\ attempt' = 0
    /\ received' = FALSE
    /\ total_bytes' = 0
    /\ response' = <<>>
    /\ flag' = FALSE

\* A return that does not leave the workflow but goes on with step 7: the
\* mutation of ToIdle
carry_on ==
    /\ upc' = "send_begin"
    /\ urun' = TRUE
    /\ inflight' = inflight
    /\ NoLocals

\* Back to the top of the main loop: select() does not suspend when a signal is there
ToIdle ==
    /\ upc' = "idle"
    /\ urun' = SignalPending
    /\ inflight' = {}
    /\ NoLocals

\* A read loop that gives the run up when a trigger is waiting: the mutation of
\* NextPoll
poll_unless_pending(polls, after) ==
    /\ attempt' = attempt + 1
    /\ upc' = IF SignalPending THEN "idle"
              ELSE IF attempt + 1 < polls THEN upc ELSE after
    /\ urun' = FALSE

\* The next iteration of a read loop of `polls` iterations; `after` follows the loop.
\* The Timer::after at the end of the body suspends the task.
NextPoll(polls, after) ==
    /\ attempt' = attempt + 1
    /\ upc' = IF attempt + 1 < polls THEN upc ELSE after
    /\ urun' = FALSE

(* The start-up probe, main.rs:287-330 *)
TEST_CMD == <<"A", "T", "\r", "\n">>

UartBoot ==
    /\ upc = "boot"
    /\ \E ok \in BOOLEAN :
        IF ok
        THEN /\ txlog' = Written(TEST_CMD)
             /\ upc' = "probe_read"
             /\ urun' = FALSE
        ELSE /\ txlog' = txlog
             /\ upc' = "idle"
             /\ urun' = SignalPending
    /\ Dropped /\ UNCHANGED << AT_RESULT, httpVars, sigVars, loopVars, rxbuf,
                    rxerr, modem, histVars >>
    /\ stream' = NoStream

ProbeRead ==
    /\ upc = "probe_read"
    /\ ReadReady
    /\ rxerr' = FALSE
    /\ rxbuf' = ReadRest(ReadBuf)
    /\ LET s == ReadChunk(ReadBuf) IN
       IF ReadOk /\ IsUtf8(s)
       THEN /\ result_lock = "free"
            /\ AT_RESULT' = Log(Log(<<>>, <<"EC800K is responding! Initial response:">>), s)
            /\ upc' = "idle"
            /\ urun' = SignalPending
            /\ attempt' = 0
       ELSE /\ NextPoll(ProbePolls, "probe_none")
            /\ AT_RESULT' = AT_RESULT
    /\ Dropped /\ UNCHANGED << httpVars, sigVars, command, step, received,
                    total_bytes, response, flag, txlog, modem, histVars >>
    /\ KeepStream(ReadBuf, {"probe_read"})

ProbeNone ==
    /\ upc = "probe_none"
    /\ result_lock = "free"
    /\ AT_RESULT' = Log(<<>>, <<"No response from EC800K on startup">>)
    /\ upc' = "idle"
    /\ urun' = SignalPending
    /\ attempt' = 0
    /\ Dropped /\ UNCHANGED << httpVars, sigVars, command, step, received,
                    total_bytes, response, flag, rxbuf, rxerr, txlog, modem, histVars >>
    /\ stream' = NoStream

(* The main loop, main.rs:333-347 *)

\* A select() that would complete both branches when both signals are raised
select_both(first, second) ==
    (IF first # <<>> THEN {"First"} ELSE {}) \cup (IF second # <<>> THEN {"Second"} ELSE {})

\* A select() that polls its second future first
select_last(first, second) ==
    IF second # <<>> THEN {"Second"} ELSE IF first # <<>> THEN {"First"} ELSE {}

\* Which branch of select() completes: the first future is polled first, and the
\* second is dropped unpolled when the first is ready.
select(first, second) ==
    IF first # <<>> THEN {"First"} ELSE IF second # <<>> THEN {"Second"} ELSE {}

Dispatch ==
    /\ upc = "idle"
    /\ SignalPending
    /\ LET taken == select(AT_COMMAND_SIGNAL, HTTP_GET_SIGNAL)
           ats   == IF "First" \in taken THEN AT_COMMAND_SIGNAL ELSE <<>>
           gets  == IF "Second" \in taken THEN HTTP_GET_SIGNAL ELSE <<>>
       IN  /\ AT_COMMAND_SIGNAL' = IF "First" \in taken THEN <<>> ELSE AT_COMMAND_SIGNAL
           /\ HTTP_GET_SIGNAL' = IF "Second" \in taken THEN <<>> ELSE HTTP_GET_SIGNAL
           /\ command' = IF "First" \in taken THEN AT_COMMAND_SIGNAL[1].cmd ELSE <<>>
           /\ inflight' = inflight \cup {[id |-> ats[k].id, kind |-> "at"] : k \in 1..Len(ats)}
                                   \cup {[id |-> gets[k].id, kind |-> "get"] : k \in 1..Len(gets)}
           /\ serviced' = serviced \o [k \in 1..Len(ats) |-> ats[k].id]
                                   \o [k \in 1..Len(gets) |-> gets[k].id]
           /\ upc' = IF "First" \in taken THEN "at_begin" ELSE "get_begin"
    /\ urun' = (result_lock = "free")
    /\ txlog' = <<>>
    /\ Dropped /\ UNCHANGED << AT_RESULT, httpVars, nsub, busysub, step,
                    attempt, received, total_bytes, response, flag, rxbuf, rxerr, modem >>
    /\ stream' = NoStream

(* handle_at_command, main.rs:350-447 *)

AtBegin ==
    /\ upc = "at_begin"
    /\ result_lock = "free"
    /\ \E ok \in BOOLEAN :
        IF ok
        THEN /\ AT_RESULT' = Log(Log(Log(<<>>, <<"Sending command:">>), Trim(command)),
                                 <<"Waiting for response...">>)
             /\ txlog' = Written(command)
             /\ upc' = "at_read"
             /\ urun' = FALSE
             /\ UNCHANGED << loopVars, histVars >>
        ELSE /\ AT_RESULT' = Log(<<>>, <<"Failed to send AT command: UART write error">>)
             /\ txlog' = txlog
             /\ serviced' = serviced
             /\ ToIdle
    /\ Dropped /\ UNCHANGED << httpVars, sigVars, rxbuf, rxerr, modem >>
    /\ stream' = NoStream

AtRead ==
    /\ upc = "at_read"
    /\ ReadReady
    /\ rxerr' = FALSE
    /\ rxbuf' = ReadRest(ReadBuf)
    /\ LET s == ReadChunk(ReadBuf) IN
       IF ReadOk
       THEN /\ received' = TRUE
            /\ total_bytes' = total_bytes + Len(s)
            /\ response' = IF IsUtf8(s) THEN PushStr(response, s, 2 * RespCap) ELSE response
            /\ IF IsUtf8(s) /\ (Contains(s, OK) \/ Contains(s, ERROR))
               THEN /\ upc' = "at_done"
                    /\ urun' = (result_lock = "free")
                    /\ attempt' = attempt
               ELSE NextPoll(AtPolls, "at_done")
       ELSE /\ NextPoll(AtPolls, "at_done")
            /\ UNCHANGED << received, total_bytes, response >>
    /\ Dropped /\ UNCHANGED << AT_RESULT, httpVars, sigVars, command, step, flag,
                    txlog, modem, histVars >>
    /\ KeepStream(ReadBuf, {"at_read", "at_done"})

\* How handle_at_command classifies the accumulated response, main.rs:417-423
AtVerdict(r) ==
    IF Contains(r, OK) THEN "successful"
    ELSE IF Contains(r, ERROR) THEN "failed"
    ELSE IF Trim(r) = <<>> THEN "empty"
    ELSE "other"

\* The text handle_at_command publishes at its end, main.rs:401-433
AtOutcome ==
    IF received
    THEN LET body == Log(Log(Log(Log(<<>>, <<"Command:">>), Trim(command)),
                             <<"Response (" \o ToString(total_bytes) \o " bytes):">>),
                         response)
         IN  CASE AtVerdict(response) = "successful" -> Log(body, <<"Command successful!">>)
               [] AtVerdict(response) = "failed"     -> Log(body, <<"Command failed">>)
               [] AtVerdict(response) = "empty"      -> Log(body, <<"Empty response">>)
               [] OTHER                              -> body
    ELSE Log(Log(Log(<<>>, <<"Command:">>), Trim(command)),
             <<"No response received. Possible issues: ...">>)

AtDone ==
    /\ upc = "at_done"
    /\ result_lock = "free"
    /\ AT_RESULT' = AtOutcome
    /\ ToIdle
    /\ Dropped /\ UNCHANGED << httpVars, sigVars, rxbuf, rxerr, txlog, modem, serviced >>
    /\ stream' = NoStream

(* send_at_command, main.rs:875-952 *)

StepCmd(k) ==
    CASE k = 1 -> CMD_CPIN
      [] k = 2 -> CMD_CREG
      [] k = 3 -> CMD_CGATT
      [] k = 4 -> CMD_QICSGP
      [] k = 5 -> CMD_QIACTQ

StepHead(k) ==
    CASE k = 1 -> "Step 1/9: Checking SIM status..."
      [] k = 2 -> "Step 2/9: Checking network registration..."
      [] k = 3 -> "Step 3/9: Attaching to network..."
      [] k = 4 -> "Step 4/9: Setting APN..."
      [] k = 5 -> "Step 5/9: Checking PDP status..."

StepDesc(k) ==
    CASE k = 1 -> "Checking SIM status"
      [] k = 2 -> "Checking network registration"
      [] k = 3 -> "Attaching to network"
      [] k = 4 -> "Setting APN"
      [] k = 5 -> "Checking PDP status"

\* The same step once more: the mutation of AfterStep
step_again(k) ==
    /\ upc' = "sc_begin"
    /\ step' = k

\* Where perform_http_get goes on when send_at_command(step k) returns true
AfterStep(k) ==
    IF k < 4 THEN /\ upc' = "sc_begin"
                  /\ step' = k + 1
    ELSE IF k = 4 THEN /\ upc' = "act_begin"
                       /\ step' = 0
    ELSE /\ upc' = "open_begin"
         /\ step' = 0

(* perform_http_get, main.rs:472-482: the status is replaced, then step 1 starts *)
GetBegin ==
    /\ upc = "get_begin"
    /\ result_lock = "free"
    /\ AT_RESULT' = Log(<<>>, <<"Starting HTTP GET process... Step 1/9: Checking SIM status...">>)
    /\ upc' = "sc_begin"
    /\ step' = 1
    /\ urun' = TRUE
    /\ Dropped /\ UNCHANGED << httpVars, sigVars, command, attempt, received,
                    total_bytes, response, flag, rxbuf, rxerr, txlog, modem, histVars >>
    /\ stream' = NoStream

ScBegin ==
    /\ upc = "sc_begin"
    /\ result_lock = "free"
    /\ LET hdr == Log(AT_RESULT, <<StepHead(step)>>) IN
       \E ok \in BOOLEAN :
        IF ok
        THEN /\ AT_RESULT' = hdr
             /\ txlog' = Written(StepCmd(step))
             /\ upc' = "sc_read"
             /\ urun' = FALSE
             /\ attempt' = 0
             /\ received' = FALSE
             /\ UNCHANGED << command, step, total_bytes, response, flag, histVars >>
        ELSE /\ AT_RESULT' = Log(hdr, <<"Failed to send", StepDesc(step)>>)
             /\ txlog' = txlog
             /\ serviced' = serviced
             /\ ToIdle
    /\ Dropped /\ UNCHANGED << httpVars, sigVars, rxbuf, rxerr, modem >>
    /\ stream' = NoStream

\* How send_at_command classifies one chunk: "true", "false" or "more".
\* Its local `response` (main.rs:895, 912) is written and never read.
StepVerdict(s) ==
    IF Contains(s, OK) THEN "true"
    ELSE IF Contains(s, ERROR) THEN "false"
    ELSE "more"

ScRead ==
    /\ upc = "sc_read"
    /\ ReadReady
    /\ rxerr' = FALSE
    /\ rxbuf' = ReadRest(ReadBuf)
    /\ LET s   == ReadChunk(ReadBuf)
           got == Log(Log(AT_RESULT, <<"Response: ">>), s)
       IN  IF ReadOk /\ IsUtf8(s)
           THEN /\ result_lock = "free"
                /\ CASE StepVerdict(s) = "true" ->
                          /\ AT_RESULT' = got
                          /\ AfterStep(step)
                          /\ urun' = TRUE
                          /\ attempt' = 0
                          /\ received' = FALSE
                          /\ UNCHANGED << command, total_bytes, response, flag, histVars >>
                     [] StepVerdict(s) = "false" ->
                          /\ AT_RESULT' = Log(got, <<StepDesc(step), "failed">>)
                          /\ serviced' = serviced
                          /\ ToIdle
                     [] OTHER ->
                          /\ AT_RESULT' = got
                          /\ NextPoll(StepPolls, "sc_exit")
                          /\ received' = TRUE
                          /\ UNCHANGED << command, step, total_bytes, response, flag, histVars >>
           ELSE /\ NextPoll(StepPolls, "sc_exit")
                /\ received' = (received \/ ReadOk)
                /\ UNCHANGED << AT_RESULT, command, step, total_bytes, response, flag, histVars >>
    /\ Dropped /\ UNCHANGED << httpVars, sigVars, txlog, modem >>
    /\ KeepStream(ReadBuf, {"sc_read", "sc_exit"})

\* What send_at_command returns when its loop ends without a token, main.rs:932-941
StepExhausted(rcvd) == rcvd

ScExit ==
    /\ upc = "sc_exit"
    /\ IF StepExhausted(received)
       THEN /\ AfterStep(step)
            /\ urun' = (result_lock = "free")
            /\ attempt' = 0
            /\ received' = FALSE
            /\ UNCHANGED << AT_RESULT, command, total_bytes, response, flag, histVars >>
       ELSE /\ result_lock = "free"
            /\ AT_RESULT' = IF received THEN AT_RESULT
                            ELSE Log(AT_RESULT, <<"No response for", StepDesc(step)>>)
            /\ serviced' = serviced
            /\ ToIdle
    /\ Dropped /\ UNCHANGED << httpVars, sigVars, rxbuf, rxerr, txlog, modem >>
    /\ stream' = NoStream

(* Step 5: activation, main.rs:504-585 *)
ActBegin ==
    /\ upc = "act_begin"
    /\ result_lock = "free"
    /\ LET hdr == Log(AT_RESULT, <<"Step 5/9: Activating PDP context...">>) IN
       \E ok \in BOOLEAN :
        IF ok
        THEN /\ AT_RESULT' = hdr
             /\ txlog' = Written(CMD_QIACT)
             /\ upc' = "act_read"
             /\ urun' = FALSE
             /\ attempt' = 0
             /\ UNCHANGED << command, step, received, total_bytes, response, flag, histVars >>
        ELSE /\ AT_RESULT' = Log(hdr, <<"Failed to send activation command">>)
             /\ txlog' = txlog
             /\ serviced' = serviced
             /\ ToIdle
    /\ Dropped /\ UNCHANGED << httpVars, sigVars, rxbuf, rxerr, modem >>
    /\ stream' = NoStream

\* The activation loop's reading of one chunk: "done", "error" or "more"
ActVerdict(s) ==
    IF Contains(s, OK) THEN "done"
    ELSE IF Contains(s, ERROR) THEN "error"
    ELSE "more"

ActRead ==
    /\ upc = "act_read"
    /\ ReadReady
    /\ rxerr' = FALSE
    /\ rxbuf' = ReadRest(ReadBuf)
    /\ LET s   == ReadChunk(ReadBuf)
           got == Log(Log(AT_RESULT, <<"Response: ">>), s)
       IN  IF ReadOk /\ IsUtf8(s)
           THEN /\ result_lock = "free"
                /\ CASE ActVerdict(s) = "done" ->
                          /\ AT_RESULT' = got
                          /\ upc' = "open_begin"
                          /\ urun' = TRUE
                          /\ attempt' = 0
                          /\ step' = step
                     [] ActVerdict(s) = "error" ->
                          /\ AT_RESULT' = Log(got, <<"Activation command returned ERROR. Checking if PDP is already active...">>)
                          /\ upc' = "sc_begin"
                          /\ step' = 5
                          /\ urun' = TRUE
                          /\ attempt' = 0
                     [] OTHER ->
                          /\ AT_RESULT' = got
                          /\ NextPoll(ActPolls, "act_exit")
                          /\ step' = step
           ELSE /\ NextPoll(ActPolls, "act_exit")
                /\ UNCHANGED << AT_RESULT, step >>
    /\ Dropped /\ UNCHANGED << httpVars, sigVars, command, received, total_bytes,
                    response, flag, txlog, modem, histVars >>
    /\ KeepStream(ReadBuf, {"act_read", "act_exit"})

ActExit ==
    /\ upc = "act_exit"
    /\ result_lock = "free"
    /\ AT_RESULT' = Log(AT_RESULT, <<"Failed to activate PDP context">>)
    /\ ToIdle
    /\ Dropped /\ UNCHANGED << httpVars, sigVars, rxbuf, rxerr, txlog, modem, serviced >>
    /\ stream' = NoStream

(* Step 6: open the socket, main.rs:587-655 *)
OpenBegin ==
    /\ upc = "open_begin"
    /\ result_lock = "free"
    /\ LET hdr == Log(AT_RESULT, <<"Step 6/9: Opening TCP connection to httpbin.org:80...">>) IN
       \E ok \in BOOLEAN :
        IF ok
        THEN /\ AT_RESULT' = hdr
             /\ txlog' = Written(CMD_QIOPEN)
             /\ upc' = "open_read"
             /\ urun' = FALSE
             /\ attempt' = 0
             /\ response' = <<>>
             /\ UNCHANGED << command, step, received, total_bytes, flag, histVars >>
        ELSE /\ AT_RESULT' = Log(hdr, <<"Failed to send TCP open command">>)
             /\ txlog' = txlog
             /\ serviced' = serviced
             /\ ToIdle
    /\ Dropped /\ UNCHANGED << httpVars, sigVars, rxbuf, rxerr, modem >>
    /\ stream' = NoStream

\* The open loop's reading of a chunk s with the accumulated open_response r:
\* "opened", "failed" or "more"
OpenVerdict(s, r) ==
    IF Contains(s, QIOPEN00) \/ Contains(r, QIOPEN00) THEN "opened"
    ELSE IF Contains(s, ERROR) \/ Contains(s, QIOPEN04)
            \/ Contains(r, ERROR) \/ Contains(r, QIOPEN04) THEN "failed"
    ELSE "more"

OpenRead ==
    /\ upc = "open_read"
    /\ ReadReady
    /\ rxerr' = FALSE
    /\ rxbuf' = ReadRest(ReadBuf)
    /\ LET s   == ReadChunk(ReadBuf)
           r   == PushStr(response, s, RespCap)
           got == Log(Log(AT_RESULT, <<"Response: ">>), s)
       IN  IF ReadOk /\ IsUtf8(s)
           THEN /\ result_lock = "free"
                /\ CASE OpenVerdict(s, r) = "opened" ->
                          /\ AT_RESULT' = got
                          /\ upc' = "send_begin"
                          /\ urun' = TRUE
                          /\ attempt' = 0
                          /\ response' = <<>>
                          /\ UNCHANGED << command, step, received, total_bytes, flag, histVars >>
                     [] OpenVerdict(s, r) = "failed" ->
                          /\ AT_RESULT' = Log(got, <<"Failed to open TCP connection">>)
                          /\ serviced' = serviced
                          /\ ToIdle
                     [] OTHER ->
                          /\ AT_RESULT' = got
                          /\ NextPoll(OpenPolls, "open_exit")
                          /\ response' = r
                          /\ UNCHANGED << command, step, received, total_bytes, flag, histVars >>
           ELSE /\ NextPoll(OpenPolls, "open_exit")
                /\ UNCHANGED << AT_RESULT, command, step, received, total_bytes,
                                response, flag, histVars >>
    /\ Dropped /\ UNCHANGED << httpVars, sigVars, txlog, modem >>
    /\ KeepStream(ReadBuf, {"open_read", "open_exit"})

OpenExit ==
    /\ upc = "open_exit"
    /\ result_lock = "free"
    /\ AT_RESULT' = Log(Log(AT_RESULT, <<"Timeout waiting for +QIOPEN: 0,0. Received so far:">>),
                        response)
    /\ ToIdle
    /\ Dropped /\ UNCHANGED << httpVars, sigVars, rxbuf, rxerr, txlog, modem, serviced >>
    /\ stream' = NoStream

(* Step 7: ask for the send prompt, main.rs:657-704 *)
SendBegin ==
    /\ upc = "send_begin"
    /\ result_lock = "free"
    /\ LET hdr == Log(AT_RESULT, <<"Step 7/9: Preparing to send HTTP request...">>) IN
       \E ok \in BOOLEAN :
        IF ok
        THEN /\ AT_RESULT' = hdr
             /\ txlog' = Written(CMD_QISEND)
             /\ upc' = "send_read"
             /\ urun' = FALSE
             /\ attempt' = 0
             /\ response' = <<>>
             /\ UNCHANGED << command, step, received, total_bytes, flag, histVars >>
        ELSE /\ AT_RESULT' = Log(hdr, <<"Failed to send AT+QISEND command">>)
             /\ txlog' = txlog
             /\ serviced' = serviced
             /\ ToIdle
    /\ Dropped /\ UNCHANGED << httpVars, sigVars, rxbuf, rxerr, modem >>
    /\ stream' = NoStream

\* got_prompt for every input: the mutation of GotPrompt
prompt_always(s, r) == TRUE

\* got_prompt, main.rs:687
GotPrompt(s, r) == Contains(s, PROMPT) \/ Contains(r, PROMPT)

SendRead ==
    /\ upc = "send_read"
    /\ ReadReady
    /\ rxerr' = FALSE
    /\ rxbuf' = ReadRest(ReadBuf)
    /\ LET s   == ReadChunk(ReadBuf)
           r   == PushStr(response, s, RespCap)
           got == Log(Log(AT_RESULT, <<"Response: ">>), s)
       IN  IF ReadOk /\ IsUtf8(s)
           THEN /\ result_lock = "free"
                /\ AT_RESULT' = got
                /\ IF GotPrompt(s, r)
                   THEN /\ upc' = "payload"
                        /\ urun' = TRUE
                        /\ attempt' = 0
                        /\ response' = <<>>
                   ELSE /\ NextPoll(PromptPolls, "send_exit")
                        /\ response' = r
           ELSE /\ NextPoll(PromptPolls, "send_exit")
                /\ UNCHANGED << AT_RESULT, response >>
    /\ Dropped /\ UNCHANGED << httpVars, sigVars, command, step, received,
                    total_bytes, flag, txlog, modem, histVars >>
    /\ KeepStream(ReadBuf, {"send_read", "send_exit"})

SendExit ==
    /\ upc = "send_exit"
    /\ result_lock = "free"
    /\ AT_RESULT' = Log(Log(AT_RESULT, <<"Timeout waiting for '>' prompt. Received so far:">>),
                        response)
    /\ ToIdle
    /\ Dropped /\ UNCHANGED << httpVars, sigVars, rxbuf, rxerr, txlog, modem, serviced >>
    /\ stream' = NoStream

(* Step 8: the payload and Ctrl+Z, main.rs:706-733 *)
Payload ==
    /\ upc = "payload"
    /\ result_lock = "free"
    /\ LET hdr == Log(AT_RESULT, <<"Step 8/9: Sending HTTP GET request...">>) IN
       \E ok1, ok2 \in BOOLEAN :
        CASE ok1 /\ ok2 ->
               /\ AT_RESULT' = Log(hdr, <<"HTTP request sent, waiting for SEND OK...">>)
               /\ txlog' = Append(Written(HTTP_REQ), [task |-> "uart_task", data |-> CTRL_Z])
               /\ upc' = "sendok_read"
               /\ urun' = FALSE
               /\ attempt' = 0
               /\ flag' = FALSE
               /\ UNCHANGED << command, step, received, total_bytes, response, histVars >>
          [] ok1 /\ ~ok2 ->
               /\ AT_RESULT' = Log(hdr, <<"Failed to send Ctrl+Z">>)
               /\ txlog' = Written(HTTP_REQ)
               /\ serviced' = serviced
               /\ ToIdle
          [] ~ok1 /\ ok2 ->
               /\ AT_RESULT' = Log(hdr, <<"Failed to send HTTP request">>)
               /\ txlog' = txlog
               /\ serviced' = serviced
               /\ ToIdle
          [] OTHER -> FALSE
    /\ Dropped /\ UNCHANGED << httpVars, sigVars, rxbuf, rxerr, modem >>
    /\ stream' = NoStream

SendOkRead ==
    /\ upc = "sendok_read"
    /\ ReadReady
    /\ rxerr' = FALSE
    /\ rxbuf' = ReadRest(ReadBuf)
    /\ LET s == ReadChunk(ReadBuf) IN
       IF ReadOk /\ IsUtf8(s)
       THEN /\ result_lock = "free"
            /\ AT_RESULT' = Log(Log(AT_RESULT, <<"Response: ">>), s)
            /\ IF Contains(s, SEND_OK)
               THEN /\ flag' = TRUE
                    /\ upc' = "step9"
                    /\ urun' = TRUE
                    /\ attempt' = 0
               ELSE /\ NextPoll(SendOkPolls, "step9")
                    /\ flag' = flag
       ELSE /\ NextPoll(SendOkPolls, "step9")
            /\ UNCHANGED << AT_RESULT, flag >>
    /\ Dropped /\ UNCHANGED << httpVars, sigVars, command, step, received,
                    total_bytes, response, txlog, modem, histVars >>
    /\ KeepStream(ReadBuf, {"sendok_read"})

(* Step 9: the data notice and the read, main.rs:761-855 *)
Step9 ==
    /\ upc = "step9"
    /\ result_lock = "free"
    /\ AT_RESULT' = Log(IF flag THEN AT_RESULT ELSE Log(AT_RESULT, <<"No SEND OK received">>),
                        <<"Step 9/9: Waiting for data notification...">>)
    /\ upc' = "notify_read"
    /\ urun' = FALSE
    /\ attempt' = 0
    /\ flag' = FALSE
    /\ Dropped /\ UNCHANGED << httpVars, sigVars, command, step, received,
                    total_bytes, response, rxbuf, rxerr, txlog, modem, histVars >>
    /\ stream' = NoStream

NotifyRead ==
    /\ upc = "notify_read"
    /\ ReadReady
    /\ rxerr' = FALSE
    /\ rxbuf' = ReadRest(ReadBuf)
    /\ LET s == ReadChunk(ReadBuf) IN
       IF ReadOk /\ IsUtf8(s)
       THEN /\ result_lock = "free"
            /\ AT_RESULT' = Log(Log(AT_RESULT, <<"Notification: ">>), s)
            /\ IF Contains(s, RECV)
               THEN /\ flag' = TRUE
                    /\ upc' = "qird"
                    /\ urun' = TRUE
                    /\ attempt' = 0
               ELSE /\ NextPoll(NotifyPolls, "qird")
                    /\ flag' = flag
       ELSE /\ NextPoll(NotifyPolls, "qird")
            /\ UNCHANGED << AT_RESULT, flag >>
    /\ Dropped /\ UNCHANGED << httpVars, sigVars, command, step, received,
                    total_bytes, response, txlog, modem, histVars >>
    /\ KeepStream(ReadBuf, {"notify_read"})

Qird ==
    /\ upc = "qird"
    /\ result_lock = "free"
    /\ AT_RESULT' = Log(IF flag THEN AT_RESULT
                        ELSE Log(AT_RESULT, <<"No data notification received">>),
                        <<"Fetching data with AT+QIRD=0...">>)
    /\ \E ok \in BOOLEAN :
        IF ok
        THEN /\ txlog' = Written(CMD_QIRD)
             /\ upc' = "data_read"
             /\ urun' = FALSE
             /\ attempt' = 0
             /\ flag' = FALSE
             /\ response' = <<>>
             /\ UNCHANGED << command, step, received, total_bytes, histVars >>
        ELSE /\ txlog' = txlog
             /\ serviced' = serviced
             /\ ToIdle
    /\ Dropped /\ UNCHANGED << httpVars, sigVars, rxbuf, rxerr, modem >>
    /\ stream' = NoStream

\* received_final_data, main.rs:830
FinalData(s) == Contains(s, BLANK2) /\ Contains(s, BRACE)

DataRead ==
    /\ upc = "data_read"
    /\ ReadReady
    /\ rxerr' = FALSE
    /\ rxbuf' = ReadRest(2 * ReadBuf)
    /\ LET s == ReadChunk(2 * ReadBuf) IN
       IF ReadOk /\ IsUtf8(s)
       THEN /\ response' = PushStr(response, s, 4 * RespCap)
            /\ IF FinalData(s)
               THEN /\ flag' = TRUE
                    /\ upc' = "final"
                    /\ urun' = (result_lock = "free")
                    /\ attempt' = attempt
               ELSE /\ NextPoll(DataPolls, "final")
                    /\ flag' = flag
       ELSE /\ NextPoll(DataPolls, "final")
            /\ UNCHANGED << response, flag >>
    /\ Dropped /\ UNCHANGED << AT_RESULT, httpVars, sigVars, command, step,
                    received, total_bytes, txlog, modem, histVars >>
    /\ KeepStream(2 * ReadBuf, {"data_read"})

Final ==
    /\ upc = "final"
    /\ result_lock = "free"
    /\ AT_RESULT' =
          IF flag THEN Log(Log(<<>>, <<"HTTP GET Complete!">>), response)
          ELSE IF response # <<>>
               THEN Log(Log(<<>>, <<"Process finished with partial data:">>), response)
               ELSE Log(<<>>, <<"Process finished but no HTTP data read">>)
    /\ ToIdle
    /\ Dropped /\ UNCHANGED << httpVars, sigVars, rxbuf, rxerr, txlog, modem, serviced >>
    /\ stream' = NoStream

-----------------------------------------------------------------------------
(* The system *)

InitProgram ==
    /\ AT_RESULT = <<>>
    /\ result_lock = "free"
    /\ AT_COMMAND_SIGNAL = <<>>
    /\ HTTP_GET_SIGNAL = <<>>
    /\ hpc = "accept"
    /\ cmd_to_send = <<>>
    /\ trigger_http_get = FALSE
    /\ upc = "boot"
    /\ urun = TRUE
    /\ command = <<>>
    /\ step = 0
    /\ attempt = 0
    /\ received = FALSE
    /\ total_bytes = 0
    /\ response = <<>>
    /\ flag = FALSE
    /\ rxbuf = <<>>
    /\ rxerr = FALSE
    /\ txlog = <<>>
    /\ nsub = 0
    /\ inflight = {}
    /\ serviced = <<>>
    /\ busysub = {}
    /\ stream = NoStream

Init ==
    /\ InitProgram
    /\ modem = "reply"

Http  == HttpServe \/ HttpFinish
Modem == ModemSend \/ ModemFault
Probe == UartBoot \/ ProbeRead \/ ProbeNone
AdHoc == AtBegin \/ AtRead \/ AtDone
Steps == GetBegin \/ ScBegin \/ ScRead \/ ScExit \/ ActBegin \/ ActRead \/ ActExit
Open  == OpenBegin \/ OpenRead \/ OpenExit
Send  == SendBegin \/ SendRead \/ SendExit \/ Payload \/ SendOkRead
Fetch == Step9 \/ NotifyRead \/ Qird \/ DataRead \/ Final

uart_task == Probe \/ Dispatch \/ AdHoc \/ Steps \/ Open \/ Send \/ Fetch

Next == Http \/ Modem \/ uart_task

Spec == Init /\ [][Next]_vars

(* The matchers on their own: the start-up probe is over, one trigger of       *)
(* either kind has been raised, and the modem streams atoms in every chunking  *)
(* while the ad-hoc command or the workflow's plain OK/ERROR steps run.        *)
MatchInit ==
    /\ \E get \in BOOLEAN :
         /\ AT_COMMAND_SIGNAL =
               IF get THEN <<>> ELSE Signal(<<>>, [id |-> 1, cmd |-> decode_url(<<"A", "T">>)])
         /\ HTTP_GET_SIGNAL = IF get THEN Signal(<<>>, [id |-> 1]) ELSE <<>>
    /\ AT_RESULT = <<>>
    /\ result_lock = "free"
    /\ hpc = "accept"
    /\ cmd_to_send = <<>>
    /\ trigger_http_get = FALSE
    /\ upc = "idle"
    /\ urun = TRUE
    /\ command = <<>>
    /\ step = 0
    /\ attempt = 0
    /\ received = FALSE
    /\ total_bytes = 0
    /\ response = <<>>
    /\ flag = FALSE
    /\ stream = NoStream
    /\ rxbuf = <<>>
    /\ rxerr = FALSE
    /\ txlog = <<>>
    /\ nsub = 1
    /\ inflight = {}
    /\ serviced = <<>>
    /\ busysub = {}
    /\ modem = "stream"

MatchNext ==
    ModemSend \/ Dispatch \/ AdHoc \/ GetBegin \/ ScBegin \/ ScRead \/ ActBegin \/ ActRead

MatchSpec == MatchInit /\ [][MatchNext]_vars

(* The ad-hoc path from the request to the UART, for raw commands of every   *)
(* length: the start-up probe is over (nothing answered it), the front end   *)
(* submits commands, uart_task takes each one and writes it.                 *)
DecodeInit ==
    /\ AT_RESULT = <<>>
    /\ result_lock = "free"
    /\ AT_COMMAND_SIGNAL = <<>>
    /\ HTTP_GET_SIGNAL = <<>>
    /\ hpc = "accept"
    /\ cmd_to_send = <<>>
    /\ trigger_http_get = FALSE
    /\ upc = "idle"
    /\ urun = FALSE
    /\ command = <<>>
    /\ step = 0
    /\ attempt = 0
    /\ received = FALSE
    /\ total_bytes = 0
    /\ response = <<>>
    /\ flag = FALSE
    /\ stream = NoStream
    /\ rxbuf = <<>>
    /\ rxerr = FALSE
    /\ txlog = <<>>
    /\ nsub = 0
    /\ inflight = {}
    /\ serviced = <<>>
    /\ busysub = {}
    /\ modem = "reply"

DecodeNext == HttpServeLong \/ HttpFinish \/ Dispatch \/ AtBegin

DecodeSpec == DecodeInit /\ [][DecodeNext]_vars

(* The main loop with one trigger more: the program from its start, the      *)
(* ad-hoc command in full and the workflow up to the end of its command      *)
(* steps, which is as far as the order of service needs.                     *)
PrioNext ==
    HttpServeMore \/ HttpFinish \/ Modem \/ Probe \/ Dispatch \/ AdHoc
        \/ GetBegin \/ ScBegin \/ ScRead \/ ScExit

PrioSpec == Init /\ [][PrioNext]_vars

-----------------------------------------------------------------------------
(* Properties *)

\* The ids of the triggers raised and not yet taken by uart_task
Pending == Held(AT_COMMAND_SIGNAL) \cup Held(HTTP_GET_SIGNAL)

\* The points at which uart_task is suspended in rx.read()
ReadPoints == {"probe_read", "at_read", "sc_read", "act_read", "open_read",
               "send_read", "sendok_read", "notify_read", "data_read"}

(* C1: at most one trigger is in service at any time, and every step that   *)
(* writes to the UART or takes bytes or an error from it is a step of        *)
(* uart_task: the HTTP front end's state does not move in it, and every      *)
(* write on the line carries uart_task as its writer.                        *)
C1_OneInServiceOneWriter ==
    [][ /\ Cardinality(inflight') <= 1
        /\ (Len(txlog') > Len(txlog) \/ Len(rxbuf') < Len(rxbuf) \/ (rxerr /\ ~rxerr'))
              => /\ uart_task
                 /\ UNCHANGED << httpVars, result_lock, nsub >>
                 /\ \A k \in 1..Len(txlog') : txlog'[k].task = "uart_task" ]_vars

\* A trigger is in service and has written, another is raised, and the HTTP task
\* is in the middle of a response
C1_Witness ==
    /\ Cardinality(inflight) = 1
    /\ Pending # {}
    /\ txlog # <<>>
    /\ hpc = "respond"

(* C2: a trigger submitted while another is in service is rejected: it is    *)
(* neither left raised for later nor ever serviced.                          *)
C2_BusySubmitRejected ==
    \A id \in busysub :
        /\ id \notin Pending
        /\ \A k \in 1..Len(serviced) : serviced[k] # id

(* C3: every trigger raised is consumed exactly once: it is either still     *)
(* raised or has been serviced, and it has been serviced one time at most.   *)
C3_ConsumedExactlyOnce ==
    \A id \in 1..nsub :
        Cardinality({k \in 1..Len(serviced) : serviced[k] = id})
            + (IF id \in Pending THEN 1 ELSE 0) = 1

(* C4: triggers are serviced in the order of their submission: no trigger    *)
(* still raised was submitted before one that has been taken into service.   *)
C4_SubmissionOrder ==
    \A k \in 1..Len(serviced) : \A id \in Pending : serviced[k] < id

(* C5: uart_task is never blocked inside a read: wherever it waits in        *)
(* rx.read(), it can take a step of its own even though the modem has sent   *)
(* nothing.                                                                  *)
C5_ReadNeverBlocks ==
    (upc \in ReadPoints /\ result_lock = "free") => ENABLED uart_task

(* C6: when OK comes in the response stream before any ERROR, however the    *)
(* stream is cut into chunks, the command is classified a success: a step    *)
(* of the workflow does not end the run, and the ad-hoc command reports      *)
(* success.                                                                  *)
C6_SuccessFirstIsSuccess ==
    [][ /\ (upc = "sc_read" /\ Len(rxbuf') < Len(rxbuf) /\ Seen(ReadBuf).first = "OK")
              => upc' # "idle"
        /\ (upc = "at_done" /\ stream.first = "OK" /\ upc' = "idle")
              => Contains(AT_RESULT', <<"Command successful!">>) ]_vars

(* C7: when ERROR comes in the response stream before OK, the command is     *)
(* classified a failure, also when both are in one chunk: a step of the      *)
(* workflow ends the run, and the ad-hoc command reports failure.            *)
C7_FailureFirstIsFailure ==
    [][ /\ (upc = "sc_read" /\ Len(rxbuf') < Len(rxbuf) /\ Seen(ReadBuf).first = "ERROR")
              => upc' = "idle"
        /\ (upc = "at_done" /\ stream.first = "ERROR" /\ upc' = "idle")
              => Contains(AT_RESULT', <<"Command failed">>) ]_vars

(* C8: when the polls of a step are used up and neither OK nor ERROR has     *)
(* come in the stream, the step is not a success: the workflow ends the run  *)
(* and does not go on to the next step.                                      *)
C8_ExhaustedIsNotSuccess ==
    [][ (upc = "sc_exit" /\ stream.first = "none" /\ upc' # upc) => upc' = "idle" ]_vars

(* C9: when the activation has returned ERROR and the status query has       *)
(* reported an active context (+QIACT: 1,1,...), the run does not fail at    *)
(* the status query.                                                         *)
C9_ActiveContextProceeds ==
    [][ (upc = "sc_read" /\ step = 5 /\ Len(rxbuf') < Len(rxbuf)
            /\ QIACT11[1] \in Seen(ReadBuf).marks)
          => upc' # "idle" ]_vars

(* C10: an open result with a non-zero code (+QIOPEN: 0,566) is a failure of *)
(* the open step: the read that has it ends the run, so AT+QISEND is never   *)
(* sent.                                                                     *)
C10_NonZeroOpenIsFailure ==
    [][ (upc = "open_read" /\ Len(rxbuf') < Len(rxbuf)
            /\ QIOPEN0N[1] \in Seen(ReadBuf).marks)
          => upc' = "idle" ]_vars

(* C11: the step that ends a workflow run, failed or completed, writes a     *)
(* close/cleanup command to the UART before uart_task waits for the next     *)
(* trigger.                                                                  *)
C11_CleanupAtEnd ==
    [][ (upc # "idle" /\ upc' = "idle" /\ \E t \in inflight : t.kind = "get")
          => Len(txlog') > Len(txlog) ]_vars

(* C12: text appended to the log is never the part that is lost: after a     *)
(* workflow step has logged the chunk it read and goes on, the log ends      *)
(* with that chunk.                                                          *)
C12_NewestLogKept ==
    [][ (upc = "sc_read" /\ Len(rxbuf') < Len(rxbuf) /\ upc' # "idle")
          => EndsWith(AT_RESULT', ReadChunk(ReadBuf)) ]_vars

(* C13: the response accumulator of a command never exceeds its capacity     *)
(* and keeps the bytes fed last: after the ad-hoc command has read a chunk   *)
(* with OK in it, the accumulated response ends with that chunk, so the      *)
(* search over the response finds the token.                                 *)
C13_AccumulatorKeepsNewest ==
    [][ (upc = "at_read" /\ Len(rxbuf') < Len(rxbuf)
            /\ Contains(ReadChunk(ReadBuf), OK))
          => /\ Len(response') <= 2 * RespCap
             /\ EndsWith(response', ReadChunk(ReadBuf))
             /\ AtVerdict(response') = "successful" ]_vars

(* C14: whenever the HTTP front end holds AT_RESULT to format a page, the    *)
(* status text it reads is not empty.                                        *)
C14_StatusNeverEmpty == (result_lock = "http") => AT_RESULT # <<>>

(* C15: a command that ends without success publishes a text that tells "no  *)
(* response" from "ERROR": a workflow step that used up its polls without a  *)
(* byte leaves the log ending with its no-response line, a step that read    *)
(* ERROR leaves it ending with its failure line, and the ad-hoc command does *)
(* the same with its two texts.                                              *)
C15_NoResponseVsError ==
    [][ /\ (upc = "sc_exit" /\ ~received /\ upc' = "idle")
              => EndsWith(AT_RESULT', <<"No response for", StepDesc(step)>>)
        /\ (upc = "sc_read" /\ Len(rxbuf') < Len(rxbuf)
               /\ StepVerdict(ReadChunk(ReadBuf)) = "false")
              => EndsWith(AT_RESULT', <<StepDesc(step), "failed">>)
        /\ (upc = "at_done" /\ upc' = "idle" /\ ~received)
              => EndsWith(AT_RESULT', <<"No response received. Possible issues: ...">>)
        /\ (upc = "at_done" /\ upc' = "idle" /\ received /\ AtVerdict(response) = "failed")
              => EndsWith(AT_RESULT', <<"Command failed">>) ]_vars

(* C16: a read of the UART that returns an error aborts the command in       *)
(* progress: the step that takes the error does not stay in the command's    *)
(* read loop, and uart_task goes back to waiting with the command ended.     *)
C16_ReadErrorAborts ==
    [][ (upc \in ReadPoints \ {"probe_read"} /\ rxerr /\ ~rxerr') => upc' = "idle" ]_vars

(* C17: the HTTP front end does not hold the lock of AT_RESULT while it is   *)
(* suspended in writing or flushing the client socket.                       *)
C17_NoLockAcrossAwait == (hpc = "respond") => result_lock # "http"

\* C18: every ad-hoc command that reaches the UART ends with a carriage return and
\* a line feed, whatever the length of the decoded command (64 characters included)
C18_CommandTerminated ==
    (upc = "at_read") =>
        \A k \in 1..Len(txlog) : EndsWith(txlog[k].data, <<"\r", "\n">>)

(* C19: after the activation has returned ERROR, the status query leads to   *)
(* the open-socket step only when the text read during the query reports an  *)
(* active context (+QIACT: 1,1,...); an answer without it, such as a bare    *)
(* OK, does not open the socket.                                             *)
C19_OpenOnlyIfActive ==
    [][ (upc \in {"sc_read", "sc_exit"} /\ step = 5 /\ upc' = "open_begin")
          => QIACT11[1] \in (IF upc = "sc_read" THEN Seen(ReadBuf).marks
                                                ELSE stream.marks) ]_vars

\* s is an initial part of t
IsPrefix(s, t) == Len(s) <= Len(t) /\ SubSeq(t, 1, Len(s)) = s

\* The lines perform_http_get writes, in program order; AT+QIACT? is written only
\* when the activation has answered ERROR
WorkflowWrites(query) ==
    <<CMD_CPIN, CMD_CREG, CMD_CGATT, CMD_QICSGP, CMD_QIACT>>
        \o (IF query THEN <<CMD_QIACTQ>> ELSE <<>>)
        \o <<CMD_QIOPEN, CMD_QISEND, HTTP_REQ, CTRL_Z, CMD_QIRD>>

\* The lines written so far in the run in service
WrittenData == [k \in 1..Len(txlog) |-> txlog[k].data]

InWorkflowOrder == \E query \in BOOLEAN : IsPrefix(WrittenData, WorkflowWrites(query))

(* C20: within one workflow run the commands are written in the fixed order  *)
(* AT+CPIN?, AT+CREG?, AT+CGATT=1, AT+QICSGP, AT+QIACT=1 (optionally         *)
(* AT+QIACT?), AT+QIOPEN, AT+QISEND, payload, AT+QIRD, and the run goes on   *)
(* to the next command only when the step before it has read its success     *)
(* token: OK for a command step, +QIURC: "recv" before AT+QIRD.              *)
C20_FixedOrderAfterSuccess ==
    [][ /\ (\E t \in inflight' : t.kind = "get") => InWorkflowOrder'
        /\ (upc \in {"sc_read", "sc_exit"} /\ upc' \in {"sc_begin", "act_begin", "open_begin"})
              => (IF upc = "sc_read" THEN Seen(ReadBuf) ELSE stream).first = "OK"
        /\ (upc = "qird" /\ Len(txlog') > Len(txlog)) => flag ]_vars

\* The step is one in which uart_task's rx.read() returns (bytes or an error)
ReadStep == upc \in ReadPoints /\ (Len(rxbuf') < Len(rxbuf) \/ (rxerr /\ ~rxerr'))

\* The payload has gone out and Ctrl+Z has not
PayloadOpen == txlog # <<>> /\ txlog[Len(txlog)].data = HTTP_REQ

(* C21: the run comes to the payload step only by a read, made after         *)
(* AT+QISEND was written, whose text (with what was read before it for this  *)
(* command) holds the prompt '>'; when the polls for the prompt run out the  *)
(* run ends and nothing is written; the payload is written at the payload    *)
(* step only, and no read is made between the payload and the byte 0x1A.     *)
C21_PayloadAfterPrompt ==
    [][ /\ (upc # "payload" /\ upc' = "payload")
              => /\ upc = "send_read"
                 /\ Len(rxbuf') < Len(rxbuf)
                 /\ txlog[Len(txlog)].data = CMD_QISEND
                 /\ Contains(response \o ReadChunk(ReadBuf), PROMPT)
        /\ (upc = "send_exit" /\ upc' # upc) => (upc' = "idle" /\ txlog' = txlog)
        /\ (\E k \in 1..Len(txlog') : txlog'[k].data = HTTP_REQ /\ k > Len(txlog))
              => upc = "payload"
        /\ ReadStep => ~PayloadOpen ]_vars

\* The payload and its terminator have been written, in this order, after AT+QISEND
C21_Witness ==
    /\ upc = "sendok_read"
    /\ Len(txlog) >= 3
    /\ txlog[Len(txlog) - 2].data = CMD_QISEND
    /\ txlog[Len(txlog) - 1].data = HTTP_REQ
    /\ txlog[Len(txlog)].data = CTRL_Z

(* C22: the run leaves the wait for SEND OK towards step 9 only by a read     *)
(* that has SEND OK, and leaves the wait for the data notice towards          *)
(* AT+QIRD only by a read that has +QIURC: "recv"; when the polls of either   *)
(* wait run out without the token the run ends (Failed) and the read step is  *)
(* not reached.                                                              *)
C22_MissingTokenEndsRun ==
    [][ /\ (upc = "sendok_read" /\ upc' \notin {"sendok_read", "idle"})
              => (ReadOk /\ Contains(ReadChunk(ReadBuf), SEND_OK))
        /\ (upc = "notify_read" /\ upc' \notin {"notify_read", "idle"})
              => (ReadOk /\ Contains(ReadChunk(ReadBuf), RECV)) ]_vars

\* The lines by which a workflow run reports that it has failed
FailLines ==
    {"failed", "No response for", "Failed to send", "Failed to send activation command",
     "Failed to activate PDP context", "Failed to send TCP open command",
     "Failed to open TCP connection", "Timeout waiting for +QIOPEN: 0,0. Received so far:",
     "Failed to send AT+QISEND command", "Timeout waiting for '>' prompt. Received so far:",
     "Failed to send HTTP request", "Failed to send Ctrl+Z"}

\* The step writes one of these lines into AT_RESULT
FailureLogged ==
    \E k \in 1..Len(AT_RESULT') :
        /\ AT_RESULT'[k] \in FailLines
        /\ (k > Len(AT_RESULT) \/ AT_RESULT[k] # AT_RESULT'[k])

GetInFlight == \E t \in inflight : t.kind = "get"

\* The step is at one of the workflow's failure exits: a chunk with ERROR and no OK
\* at a command step, a chunk that refuses the socket, or a loop that has run out
FailurePoint ==
    \/ /\ upc = "sc_read" /\ Len(rxbuf') < Len(rxbuf) /\ IsUtf8(ReadChunk(ReadBuf))
       /\ ~Contains(ReadChunk(ReadBuf), OK) /\ Contains(ReadChunk(ReadBuf), ERROR)
    \/ /\ upc = "open_read" /\ Len(rxbuf') < Len(rxbuf) /\ IsUtf8(ReadChunk(ReadBuf))
       /\ ~Contains(ReadChunk(ReadBuf), QIOPEN00)
       /\ (Contains(ReadChunk(ReadBuf), ERROR) \/ Contains(ReadChunk(ReadBuf), QIOPEN04))
    \/ /\ upc = "sc_exit" /\ ~received /\ upc' # upc
    \/ /\ upc \in {"act_exit", "open_exit", "send_exit"} /\ upc' # upc

(* C23: the step in which a workflow run reports a failure ends the run;     *)
(* outside a run nothing is written to the UART; a trigger is taken into     *)
(* service once only, so a run that has ended is never in service again; and *)
(* "HTTP GET Complete!" is reported only by the run in service at its last   *)
(* step. A failed run therefore writes no later command and never reports    *)
(* Completed.                                                                *)
C23_FailedIsTerminal ==
    [][ /\ (GetInFlight /\ (FailureLogged \/ FailurePoint))
              => (upc' = "idle" /\ inflight' = {})
        /\ (upc = "idle") => Len(txlog') <= Len(txlog)
        /\ (inflight' # inflight /\ inflight' # {})
              => \A t \in inflight' : \A k \in 1..Len(serviced) : serviced[k] # t.id
        /\ (AT_RESULT' # AT_RESULT /\ AT_RESULT' # <<>> /\ AT_RESULT'[1] = "HTTP GET Complete!")
              => (upc = "final" /\ GetInFlight) ]_vars

\* A workflow run has failed at its socket step, the sixth command being the last
\* one written
C23_Witness ==
    /\ upc = "idle"
    /\ inflight = {}
    /\ Len(txlog) >= 6
    /\ txlog[Len(txlog)].data = CMD_QIOPEN

(* C24: when uart_task writes a command and goes on to read its answer, the  *)
(* receive buffer holds no byte from before the write (what the modem sent   *)
(* while nothing was in service, or what the previous step left unread, has  *)
(* been drained), so the answer is classified from later bytes only.         *)
C24_StaleBytesDrained ==
    [][ (Len(txlog') > Len(txlog) /\ upc' \in ReadPoints \ {"probe_read"})
          => rxbuf' = <<>> ]_vars

(* C25: when a workflow run ends before its last step (a write error, an     *)
(* ERROR, a timeout), AT_RESULT afterwards holds a line that reports the     *)
(* failure; this holds at every step, the write of AT+QIRD=0 included, and   *)
(* with a log that is already full.                                          *)
C25_FailureIsReported ==
    [][ (GetInFlight /\ upc # "final" /\ upc' = "idle")
          => \E k \in 1..Len(AT_RESULT') : AT_RESULT'[k] \in FailLines ]_vars

\* The chunk the rx.read() at the present read point returns
ChunkHere == ReadChunk(IF upc = "data_read" THEN 2 * ReadBuf ELSE ReadBuf)

(* C26: every chunk read from the UART during a command is appended to       *)
(* AT_RESULT in the step that reads it, at every read loop: the ad-hoc       *)
(* command's, the workflow steps' and the final payload read's.              *)
C26_EveryChunkLogged ==
    [][ (upc \in ReadPoints \ {"probe_read"} /\ ReadOk /\ Len(rxbuf') < Len(rxbuf))
          => /\ Len(AT_RESULT') >= Len(AT_RESULT) + Len(ChunkHere)
             /\ SubSeq(AT_RESULT', 1, Len(AT_RESULT)) = AT_RESULT
             /\ Contains(SubSeq(AT_RESULT', Len(AT_RESULT) + 1, Len(AT_RESULT')), ChunkHere)
      ]_vars

\* The line that opens the log entry of the step that writes `cmd`
HeadOf(cmd) ==
    CASE cmd = CMD_CPIN   -> StepHead(1)
      [] cmd = CMD_CREG   -> StepHead(2)
      [] cmd = CMD_CGATT  -> StepHead(3)
      [] cmd = CMD_QICSGP -> StepHead(4)
      [] cmd = CMD_QIACT  -> "Step 5/9: Activating PDP context..."
      [] cmd = CMD_QIACTQ -> StepHead(5)
      [] cmd = CMD_QIOPEN -> "Step 6/9: Opening TCP connection to httpbin.org:80..."
      [] cmd = CMD_QISEND -> "Step 7/9: Preparing to send HTTP request..."
      [] cmd = HTTP_REQ   -> "Step 8/9: Sending HTTP GET request..."
      [] cmd = CTRL_Z     -> "HTTP request sent, waiting for SEND OK..."
      [] cmd = CMD_QIRD   -> "Fetching data with AT+QIRD=0..."
      [] OTHER            -> "none"

\* The entries of s occur in t, in the order of s
RECURSIVE OccursInOrder(_, _)
OccursInOrder(s, t) ==
    IF s = <<>> THEN TRUE
    ELSE IF t = <<>> THEN FALSE
    ELSE IF Head(s) = Head(t) THEN OccursInOrder(Tail(s), Tail(t))
    ELSE OccursInOrder(s, Tail(t))

(* C27: when a workflow run ends, failed or completed, AT_RESULT still holds *)
(* the entry of every step the run went through, in the order of the steps,  *)
(* so that the run's path can be read from the log.                          *)
C27_LogIsTrace ==
    [][ (GetInFlight /\ upc' = "idle")
          => OccursInOrder([k \in 1..Len(txlog') |-> HeadOf(txlog'[k].data)], AT_RESULT')
      ]_vars

\* The lines a workflow run can write
WorkflowCmds == {WorkflowWrites(TRUE)[k] : k \in 1..Len(WorkflowWrites(TRUE))}

(* C28: within one operation no command is sent again: the lines written    *)
(* for the trigger in service are pairwise different, a workflow run writes  *)
(* workflow lines only (so at most eleven, the status query among them at    *)
(* most once), and an ad-hoc command that has been written is the one line   *)
(* on the UART until its outcome is published, however the modem behaves.    *)
C28_NoResend ==
    /\ \A i, j \in 1..Len(txlog) : i # j => txlog[i].data # txlog[j].data
    /\ GetInFlight => \A k \in 1..Len(txlog) : txlog[k].data \in WorkflowCmds
    /\ upc \in {"at_read", "at_done"} => txlog = <<[task |-> "uart_task", data |-> command]>>

\* A run with the status query has written all its eleven lines and is at its end
C28_Witness ==
    /\ upc = "final"
    /\ Len(txlog) = 11
    /\ txlog[6].data = CMD_QIACTQ

\* What uart_task and the UART hold of the operation in service
uartState == << upc, command, step, attempt, received, total_bytes, response, flag,
                txlog, rxbuf, rxerr, inflight >>

(* C29: while a workflow run is in service, a step of the HTTP front end     *)
(* (a further trigger included) leaves the run, its UART writes and the      *)
(* receive buffer as they are; the run's own steps take no trigger; a        *)
(* trigger is taken into service only when nothing is in service; and a read *)
(* ends the run only because of the text read (ERROR or +QIOPEN: 0,4),       *)
(* never because a trigger is waiting.                                       *)
C29_RunNotAltered ==
    [][ /\ (GetInFlight /\ hpc' # hpc) => UNCHANGED << uartState, AT_RESULT >>
        /\ (GetInFlight /\ hpc' = hpc) => UNCHANGED << AT_COMMAND_SIGNAL, HTTP_GET_SIGNAL >>
        /\ (inflight' # inflight /\ inflight' # {}) => (upc = "idle" /\ inflight = {})
        /\ (GetInFlight /\ upc \in ReadPoints /\ upc' = "idle")
              => /\ ReadOk
                 /\ \/ Contains(ChunkHere, ERROR) \/ Contains(response, ERROR)
                    \/ Contains(ChunkHere, QIOPEN04) \/ Contains(response, QIOPEN04)
      ]_vars

\* A run has written all its lines while a trigger submitted during it is waiting
C29_Witness ==
    /\ GetInFlight
    /\ upc = "final"
    /\ Len(txlog) >= 10
    /\ busysub # {}
    /\ Pending # {}

\* The step is one of uart_task
UartStep == upc' # upc \/ attempt' # attempt \/ txlog' # txlog \/ Len(rxbuf') < Len(rxbuf)
               \/ (rxerr /\ ~rxerr')

(* C30: uart_task holds the AT_RESULT mutex at none of its suspension points *)
(* (a UART read, a UART write, a timer, the select): it changes AT_RESULT    *)
(* only in a step that finds the mutex free, and every step of it leaves the *)
(* mutex as it was, so http_server_task never finds it held by uart_task.    *)
C30_NoLockWhileSuspended ==
    [][ /\ UartStep => result_lock' = result_lock
        /\ (hpc' = hpc /\ AT_RESULT' # AT_RESULT) => (UartStep /\ result_lock = "free")
        /\ result_lock' \in {"free", "http"} ]_vars

\* uart_task is suspended in a UART read, having written to AT_RESULT in this run,
\* while http_server_task holds the mutex
C30_Witness ==
    /\ upc = "sc_read"
    /\ step = 2
    /\ Len(AT_RESULT) >= 3
    /\ result_lock = "http"

\* uart_task leaves select() with a trigger
DispatchStep == upc = "idle" /\ upc' # "idle"

\* The workflow trigger now raised was raised while nothing was in service and has
\* waited through a service since: it was pending, with the ad-hoc command, when
\* uart_task came to select() the last time
WaitedOnce ==
    /\ HTTP_GET_SIGNAL # <<>>
    /\ HTTP_GET_SIGNAL[1].id \notin busysub
    /\ serviced # <<>>

\* With both signals raised select() completes with the ad-hoc command and the
\* workflow trigger stays raised
AdHocFirst ==
    (DispatchStep /\ AT_COMMAND_SIGNAL # <<>> /\ HTTP_GET_SIGNAL # <<>>)
        => /\ upc' = "at_begin"
           /\ inflight' = {[id |-> AT_COMMAND_SIGNAL[1].id, kind |-> "at"]}
           /\ HTTP_GET_SIGNAL' = HTTP_GET_SIGNAL

EmptyDecoded == decode_url(<<>>)

(* C32: a request /at?cmd= with an empty command value submits no trigger    *)
(* (the command the handler holds after parsing it is empty), and no bare    *)
(* line terminator is ever written to the modem for an ad-hoc command.       *)
C32_EmptyCommandIgnored ==
    /\ (hpc = "respond" /\ cmd_to_send = EmptyDecoded) => cmd_to_send = <<>>
    /\ \A k \in 1..Len(txlog) : txlog[k].data # <<"\r", "\n">>

=============================================================================
